---- MODULE Spec2Model ----
(***************************************************************************)
(* Model of the scraping run of src/app.py: the block entered when one of  *)
(* the two download buttons is set (lines 84-237).  It walks the paginated *)
(* listing (get_product_links), then scrapes every collected address       *)
(* (scrape_product, download_image) in the main loop.                      *)
(*                                                                         *)
(* The remote site is the environment.  The catalog (which links each      *)
(* listing page carries, which page indexes answer 404) is fixed for a run *)
(* and chosen in Init; transport failures are transient and chosen at each *)
(* request; the content of a detail page is chosen when it is requested.   *)
(* The analysis request of line 47 has succeeded on page 1 before the      *)
(* block is entered, so page 1 of the catalog is not a 404.                *)
(*                                                                         *)
(* An address is a sequence of characters, so that split('?') is computed. *)
(* Python's None / "" results are the empty sequence, a present value is a *)
(* one-element sequence (select_one) or a non-empty sequence (a path).     *)
(***************************************************************************)
EXTENDS Integers, Sequences, FiniteSets

\* ---------------------------------------------------------------- bounds
\* Listing pages described one by one; every page index >= MaxPage answers
\* like page MaxPage (a finite catalog ends with an empty or 404 page there).
MaxPage == 3
\* Total number of product anchors over the described pages.
MaxAnchors == 3
\* The item limit of the specification's Link Walker (the code takes none).
ItemLimit == 1

\* ---------------------------------------------------------------- inputs
Hrefs == { <<"a">>, <<"a", "?", "q">>, <<"b">>, <<"?", "q">> }

RECURSIVE SeqsUpTo(_, _)
SeqsUpTo(S, n) ==
    IF n = 0 THEN { <<>> }
    ELSE LET shorter == SeqsUpTo(S, n - 1)
         IN  shorter \cup { Append(s, x) : s \in { t \in shorter : Len(t) = n - 1 }, x \in S }

OkPage(products) == [status |-> "ok", products |-> products]
NotFoundPage == [status |-> "notfound", products |-> <<>>]
ErrorResponse == [status |-> "error", products |-> <<>>]

ListingPages(n) == { OkPage(ps) : ps \in SeqsUpTo(Hrefs, n) } \cup { NotFoundPage }

RECURSIVE Anchors(_, _)
Anchors(s, k) == IF k = 0 THEN 0 ELSE Anchors(s, k - 1) + Len(s[k].products)

HasProducts(resp) == resp.status = "ok" /\ resp.products # <<>>

\* The catalogs of k pages carrying at most MaxAnchors anchors in all.  The
\* walk never requests a page beyond the first one without products, so the
\* pages after that one repeat it.
RECURSIVE CatalogsOf(_)
CatalogsOf(k) ==
    IF k = 0 THEN { <<>> }
    ELSE UNION { { Append(s, pg) :
                     pg \in IF k > 1 /\ ~HasProducts(s[k - 1]) THEN { s[k - 1] }
                            ELSE ListingPages(MaxAnchors - Anchors(s, k - 1)) } :
                 s \in CatalogsOf(k - 1) }

Catalogs == { s \in CatalogsOf(MaxPage) : s[1].status = "ok" }

\* What a detail page holds for the selectors of lines 165-177, and what the
\* image request of line 141 answers.
DetailPages ==
    { d \in [ status : {"ok"},
              name   : { <<>>, <<"">>, <<"Seed">> },
              price  : { <<>>, <<"$1">> },
              desc   : { <<>>, <<"text">> },
              img    : { <<>>, <<"">>, <<"/i.jpg">>, <<"http">> },
              image_get : { "error", "bad_bytes", "ok" } ] :
        \* no image request is made unless the src starts with http
        d.img # <<"http">> => d.image_get = "error" }

DetailError ==
    [ status |-> "error", name |-> <<>>, price |-> <<>>, desc |-> <<>>,
      img |-> <<>>, image_get |-> "error" ]

DetailResponses == DetailPages \cup { DetailError }

\* ---------------------------------------------------------------- state
VARIABLES
    site,             \* the catalog: listing page index -> response
    page_by_page,     \* TRUE: "Download Page by Page", FALSE: "Download Full Dataset"
    pc,               \* "walk", "scrape", "final", "stopped", "exported", "failed"
    page,             \* get_product_links: page
    processed_pages,  \* get_product_links: processed_pages
    links,            \* the walker's list, then the main loop's list
    i,                \* main loop index (addresses attempted so far)
    all_products,
    image_files,
    walkEnd,          \* why the walk ended: "", "error", "notfound", "empty", "pagemode"
    lastNet,          \* last network-level event of the block: "none", "req", "sleep"
    backToBack,       \* some request was issued right after another request
    lastOutcome,      \* what the last scrape_product call met
    fetch_failed      \* addresses whose detail request failed

vars == << site, page_by_page, pc, page, processed_pages, links, i, all_products,
           image_files, walkEnd, lastNet, backToBack, lastOutcome, fetch_failed >>

\* ---------------------------------------------------------------- helpers
products_on_page == Len(site[1].products)

PageAt(p) == site[IF p > MaxPage THEN MaxPage ELSE p]

Range(s) == { s[k] : k \in 1..Len(s) }

\* page += 1; the indexes beyond MaxPage all answer alike, so they are
\* folded onto MaxPage+1 and MaxPage+2 (which keep the walk's steps distinct).
NextPage(p) == IF p >= MaxPage + 2 THEN MaxPage + 1 ELSE p + 1

\* Variant: the query string is kept.
StripQueryKeep(href) == href

RECURSIVE StripQuery(_)
StripQuery(href) ==
    IF href = <<>> \/ Head(href) = "?" THEN <<>>
    ELSE << Head(href) >> \o StripQuery(Tail(href))

\* Variant: the membership test of line 117 is dropped.
AddLinkNoCheck(ls, href) ==
    LET link == StripQuery(href)
    IN  IF link # <<>> THEN Append(ls, link) ELSE ls

AddLink(ls, href) ==
    LET link == StripQuery(href)
    IN  IF link # <<>> /\ link \notin Range(ls) THEN Append(ls, link) ELSE ls

\* Variant: the walk stops taking links once ItemLimit are held.
RECURSIVE AddLinksCapped(_, _)
AddLinksCapped(ls, products) ==
    IF products = <<>> \/ Len(ls) >= ItemLimit THEN ls
    ELSE AddLinksCapped(AddLink(ls, Head(products)), Tail(products))

RECURSIVE AddLinks(_, _)
AddLinks(ls, products) ==
    IF products = <<>> THEN ls
    ELSE AddLinks(AddLink(ls, Head(products)), Tail(products))

\* Variant: page-by-page mode breaks one page later.
PageModeBreakLate(pbp, p) == pbp /\ p > 2

PageModeBreak(pbp, p) == pbp /\ p > 1

\* Variant: a failed listing request is skipped and the walk goes on.
WalkContinuesPastError(resp, pbp, p) ==
    \/ resp.status = "error"
    \/ HasProducts(resp) /\ ~PageModeBreak(pbp, p)

WalkContinues(resp, pbp, p) ==
    /\ HasProducts(resp)
    /\ ~PageModeBreak(pbp, p)

WalkEndReason(resp, pbp, p) ==
    IF resp.status = "error" THEN "error"
    ELSE IF resp.status = "notfound" THEN "notfound"
    ELSE IF resp.products = <<>> THEN "empty"
    ELSE IF PageModeBreak(pbp, p) THEN "pagemode"
    ELSE ""


\* ---------------------------------------------------------------- extraction
IMAGE_FOLDER == "seed_images"
NotAvailable == "N/A"

StartsWithHttp(img_url) == img_url = "http"

\* Variant: a decode failure is not caught and the path is returned.
download_image_NoDecodeCheck(img_url, product_name, image_get) ==
    IF ~StartsWithHttp(img_url) THEN <<>>
    ELSE IF image_get = "error" THEN <<>>
    ELSE << IMAGE_FOLDER, product_name, ".jpg" >>

\* "" is <<>>; a saved file is << folder, safe name, extension >>.
download_image(img_url, product_name, image_get) ==
    IF ~StartsWithHttp(img_url) THEN <<>>
    ELSE IF image_get # "ok" THEN <<>>
    ELSE << IMAGE_FOLDER, product_name, ".jpg" >>

basename(path) == IF path = <<>> THEN <<>> ELSE Tail(path)

\* select_one(...) or select_one(...) gave no element: .get_text raises.
SelectorMiss(d) == d.name = <<>> \/ d.price = <<>> \/ d.desc = <<>>

TextOrNA(t) == IF t # "" THEN t ELSE NotAvailable

HasImageSrc(d) == d.img # <<>> /\ d.img[1] # ""

\* img_path of line 188 (<<>> when download_image is not called).
ImagePath(d) ==
    IF d.status = "ok" /\ ~SelectorMiss(d) /\ HasImageSrc(d)
    THEN download_image(d.img[1], TextOrNA(d.name[1]), d.image_get)
    ELSE <<>>

\* Variant: a failed detail request still yields a record of sentinels.
scrape_product_NoSkip(url, d) ==
    IF d.status # "ok" \/ SelectorMiss(d)
    THEN << [ Product_Name |-> NotAvailable, Price |-> NotAvailable,
              Description |-> NotAvailable, Product_URL |-> url, Image_File |-> <<>> ] >>
    ELSE << [ Product_Name |-> TextOrNA(d.name[1]),
              Price        |-> TextOrNA(d.price[1]),
              Description  |-> TextOrNA(d.desc[1]),
              Product_URL  |-> url,
              Image_File   |-> basename(ImagePath(d)) ] >>

\* <<>> is None, << data >> is the returned record.
scrape_product(url, d) ==
    IF d.status # "ok" THEN <<>>
    ELSE IF SelectorMiss(d) THEN <<>>
    ELSE << [ Product_Name |-> TextOrNA(d.name[1]),
              Price        |-> TextOrNA(d.price[1]),
              Description  |-> TextOrNA(d.desc[1]),
              Product_URL  |-> url,
              Image_File   |-> basename(ImagePath(d)) ] >>

IssuesImageRequest(d) ==
    d.status = "ok" /\ ~SelectorMiss(d) /\ HasImageSrc(d) /\ StartsWithHttp(d.img[1])

Outcome(d) ==
    IF d.status # "ok" THEN "fetch_error"
    ELSE IF SelectorMiss(d) THEN "selector_miss"
    ELSE IF ~IssuesImageRequest(d) THEN "no_image"
    ELSE IF d.image_get = "ok" THEN "image_saved"
    ELSE "image_failed"

LoopBreak(pbp, idx, pop) == pbp /\ pop # 0 /\ idx % pop = 0

\* i % products_on_page with products_on_page = 0 raises ZeroDivisionError,
\* which the handler of line 268 catches.
ZeroDivision(pbp, pop) == pbp /\ pop = 0

\* ---------------------------------------------------------------- behaviour
Init ==
    /\ site \in Catalogs
    /\ page_by_page \in BOOLEAN
    /\ pc = "walk"
    /\ page = 1
    /\ processed_pages = 0
    /\ links = <<>>
    /\ i = 0
    /\ all_products = <<>>
    /\ image_files = <<>>
    /\ walkEnd = ""
    /\ lastNet = "none"
    /\ backToBack = FALSE
    /\ lastOutcome = ""
    /\ fetch_failed = {}

\* One iteration of the while loop of get_product_links (lines 101-132);
\* leaving the loop returns links to line 200.
WalkPage ==
    /\ pc = "walk"
    /\ \E resp \in { PageAt(page), ErrorResponse } :
        /\ backToBack' = (backToBack \/ lastNet = "req")
        /\ walkEnd' = WalkEndReason(resp, page_by_page, page)
        /\ IF HasProducts(resp)
           THEN /\ links' = AddLinks(links, resp.products)
                /\ processed_pages' = page
           ELSE UNCHANGED << links, processed_pages >>
        /\ IF WalkContinues(resp, page_by_page, page)
           THEN /\ page' = NextPage(page)
                /\ lastNet' = "sleep"
                /\ pc' = "walk"
           ELSE /\ page' = page
                /\ lastNet' = "req"
                /\ pc' = "scrape"
    /\ UNCHANGED << site, page_by_page, i, all_products, image_files,
                    lastOutcome, fetch_failed >>

\* One iteration of the main loop (lines 202-220).
ScrapeNext ==
    /\ pc = "scrape"
    /\ i < Len(links)
    /\ \E d \in DetailResponses :
        LET idx == i + 1
            link == links[idx]
            product_data == scrape_product(link, d)
            img_path == ImagePath(d)
        IN  /\ i' = idx
            /\ all_products' = all_products \o product_data
            /\ image_files' = IF img_path # <<>> THEN Append(image_files, img_path)
                              ELSE image_files
            /\ lastOutcome' = Outcome(d)
            /\ fetch_failed' = IF d.status = "error" THEN fetch_failed \cup { link }
                               ELSE fetch_failed
            /\ backToBack' = (backToBack \/ lastNet = "req" \/ IssuesImageRequest(d))
            /\ lastNet' = "sleep"
            /\ pc' = IF ZeroDivision(page_by_page, products_on_page) THEN "failed"
                     ELSE IF LoopBreak(page_by_page, idx, products_on_page) THEN "final"
                     ELSE "scrape"
    /\ UNCHANGED << site, page_by_page, page, processed_pages, links, walkEnd >>

\* Final processing (lines 222-237): st.stop() without products, else export.
Finalize ==
    /\ \/ pc = "final"
       \/ pc = "scrape" /\ i = Len(links)
    /\ pc' = IF all_products = <<>> THEN "stopped" ELSE "exported"
    /\ UNCHANGED << site, page_by_page, page, processed_pages, links, i, all_products,
                    image_files, walkEnd, lastNet, backToBack, lastOutcome, fetch_failed >>

Next == WalkPage \/ ScrapeNext \/ Finalize

Spec == Init /\ [][Next]_vars

\* The script runs its statements one after another until it ends.
FairSpec == Spec /\ WF_vars(Next)

\* ---------------------------------------------------------------- properties
Final == { "stopped", "exported" }

Last(s) == s[Len(s)]

\* The addresses of the anchors of pages 1..k after split('?')[0], in page
\* order and in document order within a page.
RECURSIVE Discovered(_)
Discovered(k) ==
    IF k = 0 THEN <<>>
    ELSE Discovered(k - 1)
         \o [ j \in 1..Len(PageAt(k).products) |-> StripQuery(PageAt(k).products[j]) ]

FirstIndex(x, s) == CHOOSE k \in 1..Len(s) : s[k] = x /\ \A j \in 1..(k - 1) : s[j] # x

UniqueAddresses(k) == Range(Discovered(k)) \ { <<>> }

URLs == { all_products[k].Product_URL : k \in 1..Len(all_products) }

IsPrefix(s, t) == Len(s) <= Len(t) /\ \A k \in 1..Len(s) : s[k] = t[k]

\* C1: the walker's list never holds an address twice, every address in it
\* is stripped of its query string, and the addresses stand in the order of
\* their first discovery (page order, then document order).
C1_UniqueInDiscoveryOrder ==
    LET D == Discovered(processed_pages)
    IN  /\ \A m \in 1..Len(links) : links[m] \in Range(D) /\ "?" \notin Range(links[m])
        /\ \A m, n \in 1..Len(links) :
              m < n => /\ links[m] # links[n]
                       /\ FirstIndex(links[m], D) < FirstIndex(links[n], D)

\* The walk has returned two addresses from a listing of two pages in which
\* an address is repeated.
C1_Witness ==
    LET D == Discovered(processed_pages)
    IN  /\ pc = "scrape"
        /\ processed_pages >= 2
        /\ Len(links) = 2
        /\ \E j, k \in 1..Len(D) : j < k /\ D[j] = D[k] /\ D[j] # <<>>
        /\ \E k \in 1..processed_pages : \E h \in Range(PageAt(k).products) : "?" \in Range(h)

C3_WalkTerminates == <>(pc # "walk")

\* C4: a detail page that was fetched but on which an attribute's selectors
\* all miss still gives a record for its address, appended to the batch.
C4_SentinelOnMiss ==
    lastOutcome = "selector_miss" =>
        /\ all_products # <<>>
        /\ Last(all_products).Product_URL = links[i]

\* C5: an address whose detail request failed has no record, the loop goes
\* on to the next address, and a full download attempts every address.
C5_FetchFailureSkips ==
    /\ \A u \in fetch_failed : u \notin URLs
    /\ (lastOutcome = "fetch_error" /\ ~page_by_page /\ i < Len(links)) => pc = "scrape"
    /\ (~page_by_page /\ pc \in Final) => i = Len(links)

\* A full download ended with the first address failed and the second one
\* scraped.
C5_Witness ==
    /\ ~page_by_page
    /\ pc = "exported"
    /\ Len(links) = 2
    /\ links[1] \in fetch_failed
    /\ links[2] \in URLs

\* C6: a step whose image request or decoding fails appends the record of
\* its address with an empty image field, adds nothing to image_files, and
\* the loop goes on as after any other record.
C6_ImageFailureKeepsRecord ==
    [][ (i' = i + 1 /\ lastOutcome' = "image_failed") =>
            /\ Len(all_products') = Len(all_products) + 1
            /\ IsPrefix(all_products, all_products')
            /\ Last(all_products').Product_URL = links[i']
            /\ Last(all_products').Image_File = <<>>
            /\ image_files' = image_files
            /\ pc' \in { "scrape", "final" } ]_vars

\* An image failed (after an earlier image was saved) and the record is there.
C6_Witness ==
    /\ lastOutcome = "image_failed"
    /\ i = 2
    /\ Len(all_products) = 2
    /\ Len(image_files) = 1

\* C7: no request is issued right after another request, without a sleep
\* in between.
C7_DelayBetweenRequests == ~backToBack

\* C8: every record carries an address the walker returned, no two records
\* carry the same address, and the record list only grows by appends.
C8_RecordsUniqueAppendOnly ==
    /\ [](/\ \A k \in 1..Len(all_products) :
                /\ all_products[k].Product_URL # <<>>
                /\ all_products[k].Product_URL \in Range(links)
          /\ \A m, n \in 1..Len(all_products) :
                m # n => all_products[m].Product_URL # all_products[n].Product_URL)
    /\ [][IsPrefix(all_products, all_products')]_vars

\* Two records were accumulated from a listing that repeats an address.
C8_Witness ==
    /\ pc = "exported"
    /\ Len(all_products) = 2
    /\ Len(Discovered(processed_pages)) > 2

\* C9: once a listing request has failed at page k the walk is over, page k
\* is the last page requested, and the list holds exactly the addresses of
\* pages 1..k-1; the run goes on to the extraction of that list.
C9_FetchFailureEndsWalk ==
    walkEnd = "error" =>
        /\ pc \in { "scrape", "final" } \cup Final
        /\ Range(links) = UniqueAddresses(page - 1)
        /\ Len(links) = Cardinality(UniqueAddresses(page - 1))
        /\ (pc \in Final /\ ~page_by_page) => i = Len(links)

\* Page 2 failed, the link of page 1 was kept and scraped.
C9_Witness ==
    /\ walkEnd = "error"
    /\ page = 2
    /\ Len(links) >= 1
    /\ i >= 1
    /\ all_products # <<>>

\* C10: in page-by-page mode no listing page beyond index 2 is requested,
\* the loop ends right after the address at position products_on_page, and
\* at most products_on_page addresses are attempted and recorded.
C10_PageModeBounded ==
    page_by_page =>
        /\ page <= 2
        /\ processed_pages <= 2
        /\ i <= products_on_page
        /\ Len(all_products) <= products_on_page
        /\ (products_on_page > 0 /\ i = products_on_page) => pc # "scrape"

\* The list holds the links of pages 1 and 2, more than products_on_page,
\* and the run ended after products_on_page of them.
C10_Witness ==
    /\ page_by_page
    /\ pc = "exported"
    /\ processed_pages = 2
    /\ Len(links) > products_on_page
    /\ i = products_on_page

====
